---------------------------- MODULE Spec2Model ----------------------------
(***************************************************************************)
(* Microsandbox SDK greeter: the C function microsandbox_greet             *)
(* (sdk/c/src/microsandbox.c), the C++ function microsandbox::greet        *)
(* (sdk/cpp/src/microsandbox.cpp) and their callers test_greet.            *)
(*                                                                         *)
(* A state holds a fixed set of invocations ("calls").  Each call is made  *)
(* by a thread of its own, so any two calls may overlap or follow one      *)
(* another.  Strings are sequences of one-character strings; a C string    *)
(* in memory is such a sequence followed by the byte NUL.  size_t is an    *)
(* unsigned integer of SizeBits bits, and every object (the two string     *)
(* literals, the callers' name strings, the message buffers) takes its     *)
(* bytes out of one address space of 2^SizeBits bytes whose address 0 is   *)
(* the null pointer.                                                       *)
(***************************************************************************)
EXTENDS Integers, Sequences, FiniteSets, TLC

\* ------------------------------------------------------------------ bounds
\* Width of size_t and of an address, in bits.
SizeBits == 7
\* Number of greet invocations of one run.
MaxCalls == 2
\* Longest name over NameChars that SpecSeq hands to greet.
MaxShort == 2

SizeMax == 2 ^ SizeBits
Calls == 1 .. MaxCalls
\* The null pointer.
NULL == 0
\* Heap addresses (block identities); one block per call can be live.
Addrs == 1 .. MaxCalls

\* ------------------------------------------------------------------ bytes
NUL == "NUL"
Uninit == "?"
NL == "\n"

Min(a, b) == IF a < b THEN a ELSE b

\* A sequence of n copies of x.
Fill(x, n) == [i \in 1 .. n |-> x]

\* Index of the first NUL of a byte sequence, or Len + 1 when there is none.
FirstNul(bytes) ==
  LET nuls == {i \in 1 .. Len(bytes) : bytes[i] = NUL}
  IN IF nuls = {} THEN Len(bytes) + 1
     ELSE CHOOSE i \in nuls : \A j \in nuls : i <= j

\* strlen: the number of bytes before the first NUL.
StrLen(bytes) == FirstNul(bytes) - 1

\* The string a char* designates: the bytes before the first NUL.
CStr(bytes) == SubSeq(bytes, 1, StrLen(bytes))

\* A string literal or a caller's string as it lies in memory.
Lit(s) == s \o <<NUL>>

\* ------------------------------------------------------------ the literals
\* Faulty variant: the prefix without its space
PrefixNoSpace == Lit(<<"H", "e", "l", "l", "o", ",">>)

prefix == Lit(<<"H", "e", "l", "l", "o", ",", " ">>)
suffix ==
  Lit(<<"!", " ", "W", "e", "l", "c", "o", "m", "e", " ", "t", "o", " ",
        "M", "i", "c", "r", "o", "s", "a", "n", "d", "b", "o", "x", "!">>)

\* Bytes of static storage the two literals occupy.
StaticBytes == Len(prefix) + Len(suffix)

\* ------------------------------------------------------------------- state
VARIABLES
  pc,            \* where each call stands
  lang,          \* "c" or "cpp": which greet the call invokes
  name,          \* the caller's name string as it lies in memory
  total_length,  \* microsandbox_greet's local total_length
  message,       \* microsandbox_greet's local message (a pointer)
  msg,           \* microsandbox::greet's local message (a std::string)
  heap,          \* the malloc heap: address -> block
  stdout,        \* what has been written to standard output, in order
  ret,           \* what the call returned to its caller
  success,       \* test_greet's local success
  oob,           \* writes that went outside every object
  badfree        \* calls of free on a pointer that is not a live block

vars ==
  <<pc, lang, name, total_length, message, msg, heap, stdout, ret, success,
    oob, badfree>>

NoBlock == [size |-> 0, bytes |-> <<>>, owner |-> 0]
NoRet == [kind |-> "none", ptr |-> NULL, str |-> <<>>]

\* Calls whose caller-side name string is in memory.
Active(c) == pc[c] \notin {"idle", "done"}

\* Calls of microsandbox::greet that hold a constructed message.
HoldsMsg(c) == lang[c] = "cpp" /\ pc[c] \in {"p6", "p6e", "p7", "returned"}

RECURSIVE SumOver(_, _)
SumOver(S, f) ==
  IF S = {} THEN 0
  ELSE LET x == CHOOSE y \in S : TRUE IN f[x] + SumOver(S \ {x}, f)

\* Bytes of the address space that objects occupy.
Used ==
  StaticBytes
  + SumOver(Calls, [c \in Calls |-> IF Active(c) THEN Len(name[c]) ELSE 0])
  + SumOver(Calls, [c \in Calls |-> IF HoldsMsg(c) THEN Len(msg[c]) + 1 ELSE 0])
  + SumOver(Addrs, [a \in Addrs |-> heap[a].size])

\* An object of n bytes fits in what is left (address 0 is no object's).
Fits(n) == Used + n <= SizeMax - 1

Init ==
  /\ pc = [c \in Calls |-> "idle"]
  /\ lang = [c \in Calls |-> "none"]
  /\ name = [c \in Calls |-> <<>>]
  /\ total_length = [c \in Calls |-> 0]
  /\ message = [c \in Calls |-> NULL]
  /\ msg = [c \in Calls |-> <<>>]
  /\ heap = [a \in Addrs |-> NoBlock]
  /\ stdout = <<>>
  /\ ret = [c \in Calls |-> NoRet]
  /\ success = [c \in Calls |-> FALSE]
  /\ oob = {}
  /\ badfree = 0

\* ------------------------------------------------------------------ inputs
\* Longest string that fits in memory beside the literals.
MaxFit == SizeMax - 1 - StaticBytes - 1
\* Longest string that fits in memory beside the literals and its greeting.
AllocFit == (SizeMax - 1 - 2 * StaticBytes) \div 2

Test == <<"T", "e", "s", "t">>
NameChars == {"T", "!"}

RECURSIVE StringsUpTo(_)
StringsUpTo(n) ==
  IF n = 0 THEN {<<>>}
  ELSE LET S == StringsUpTo(n - 1)
       IN S \cup {Append(s, ch) : s \in {x \in S : Len(x) = n - 1}, ch \in NameChars}

\* The strings the concurrent runs greet: the empty one, the tests' one, the
\* longest that can be greeted and the longest that can exist.
SpecNames == {Lit(<<>>), Lit(Test), Lit(Fill("x", AllocFit)), Lit(Fill("x", MaxFit))}

\* The strings a single call greets: a string of every length (Call keeps
\* those that fit in memory), every short string over NameChars, and a
\* std::string with a NUL inside.
SeqNames ==
  {Lit(Fill("x", n)) : n \in 0 .. SizeMax}
    \cup {Lit(s) : s \in StringsUpTo(MaxShort)}
    \cup {Lit(Test), Lit(<<"T", NUL, "!">>)}

\* The input string: what the char* designates, what the std::string holds.
InputOf(l, nm) == IF l = "c" THEN CStr(nm) ELSE SubSeq(nm, 1, Len(nm) - 1)

\* --------------------------------------------------- microsandbox_greet (C)
\* Faulty variant: the byte of the terminator left out
TotalLengthNoTerminator(nm) ==
  (StrLen(prefix) + StrLen(nm) + StrLen(suffix)) % SizeMax

\* Faulty variant: the length of the name left out
TotalLengthNoName(nm) == (StrLen(prefix) + StrLen(suffix) + 1) % SizeMax

\* line 10, in size_t arithmetic
TotalLength(nm) ==
  (StrLen(prefix) + StrLen(nm) + StrLen(suffix) + 1) % SizeMax

\* Faulty variant: one static buffer in the place of a fresh block
StaticBuffer(h) == 1

\* malloc's choice of address: the lowest one that holds no live block.
FreshAddr(h) ==
  CHOOSE a \in Addrs : h[a] = NoBlock /\ \A b \in Addrs : b < a => h[b] # NoBlock

\* malloc(n): the null pointer, or a fresh block when n bytes are left.
Malloc(n) ==
  {NULL} \cup (IF Fits(n) /\ \E a \in Addrs : heap[a] = NoBlock
               THEN {FreshAddr(heap)} ELSE {})

\* Faulty variant: the check of malloc's result left out
NeverNull(p) == FALSE

\* line 14
IsNull(p) == p = NULL

\* Faulty variant: the last two arguments in the wrong order
FormatSwapped(a, b, c) == CStr(a) \o CStr(c) \o CStr(b) \o <<NUL>>

\* The bytes sprintf(message, "%s%s%s", a, b, c) writes, the final NUL included.
Format(a, b, c) == CStr(a) \o CStr(b) \o CStr(c) \o <<NUL>>

SizeOf(p) == IF p = NULL THEN 0 ELSE heap[p].size

\* The string printf("%s") and the caller read through a pointer.
ReadStr(p) == IF p = NULL THEN <<>> ELSE CStr(heap[p].bytes)

\* test_greet, line 9 (C) and line 7 (C++): the call, from a thread of its own.
Call(c, names) ==
  /\ pc[c] = "idle"
  /\ \A d \in Calls : d < c => pc[d] # "idle"
  /\ \E l \in {"c", "cpp"}, nm \in names :
       /\ Fits(Len(nm))
       /\ lang' = [lang EXCEPT ![c] = l]
       /\ name' = [name EXCEPT ![c] = nm]
       /\ pc' = [pc EXCEPT ![c] = IF l = "c" THEN "c10" ELSE "p5"]
  /\ UNCHANGED <<total_length, message, msg, heap, stdout, ret, success, oob,
                 badfree>>

\* lines 8-10
CLength(c) ==
  /\ pc[c] = "c10"
  /\ total_length' = [total_length EXCEPT ![c] = TotalLength(name[c])]
  /\ pc' = [pc EXCEPT ![c] = "c13"]
  /\ UNCHANGED <<lang, name, message, msg, heap, stdout, ret, success, oob,
                 badfree>>

\* line 13
CMalloc(c) ==
  /\ pc[c] = "c13"
  /\ \E p \in Malloc(total_length[c]) :
       /\ message' = [message EXCEPT ![c] = p]
       /\ heap' = IF p = NULL THEN heap
                  ELSE [heap EXCEPT ![p] =
                          [size |-> total_length[c],
                           bytes |-> Fill(Uninit, total_length[c]),
                           owner |-> c]]
  /\ pc' = [pc EXCEPT ![c] = "c14"]
  /\ UNCHANGED <<lang, name, total_length, msg, stdout, ret, success, oob,
                 badfree>>

\* lines 14-16
CCheck(c) ==
  /\ pc[c] = "c14"
  /\ IF IsNull(message[c])
     THEN /\ ret' = [ret EXCEPT ![c] = [kind |-> "ptr", ptr |-> NULL, str |-> <<>>]]
          /\ pc' = [pc EXCEPT ![c] = "returned"]
     ELSE /\ ret' = ret
          /\ pc' = [pc EXCEPT ![c] = "c19"]
  /\ UNCHANGED <<lang, name, total_length, message, msg, heap, stdout,
                 success, oob, badfree>>

\* line 19: the bytes go to message[0 ..]; those past the block's end (all
\* of them when message is null) land outside the object.
CSprintf(c) ==
  /\ pc[c] = "c19"
  /\ LET w == Format(prefix, name[c], suffix)
         p == message[c]
         n == Min(SizeOf(p), Len(w))
     IN /\ heap' = IF p = NULL THEN heap
                   ELSE [heap EXCEPT ![p].bytes =
                           [i \in 1 .. Len(@) |-> IF i <= n THEN w[i] ELSE @[i]]]
        /\ oob' = oob \cup {[who |-> c, ptr |-> p, off |-> i - 1] :
                             i \in (n + 1) .. Len(w)}
  /\ pc' = [pc EXCEPT ![c] = "c22"]
  /\ UNCHANGED <<lang, name, total_length, message, msg, stdout, ret, success,
                 badfree>>

\* Faulty variant: the format without its newline
PrintfNoNewline(p) == ReadStr(p)

\* What printf("%s\n", p) writes.
PrintfLine(p) == ReadStr(p) \o <<NL>>

\* line 22: one printf call; stdio locks the stream for the whole call.
CPrintf(c) ==
  /\ pc[c] = "c22"
  /\ stdout' = Append(stdout, [who |-> c, text |-> PrintfLine(message[c])])
  /\ pc' = [pc EXCEPT ![c] = "c24"]
  /\ UNCHANGED <<lang, name, total_length, message, msg, heap, ret, success,
                 oob, badfree>>

\* line 24
CReturn(c) ==
  /\ pc[c] = "c24"
  /\ ret' = [ret EXCEPT ![c] =
               [kind |-> "ptr", ptr |-> message[c], str |-> ReadStr(message[c])]]
  /\ pc' = [pc EXCEPT ![c] = "returned"]
  /\ UNCHANGED <<lang, name, total_length, message, msg, heap, stdout,
                 success, oob, badfree>>

\* free(p): nothing for the null pointer, the block's release for a live
\* block; anything else is an invalid free.
Free(p) ==
  IF p = NULL THEN heap' = heap /\ badfree' = badfree
  ELSE IF heap[p] # NoBlock
       THEN heap' = [heap EXCEPT ![p] = NoBlock] /\ badfree' = badfree
       ELSE heap' = heap /\ badfree' = badfree + 1

\* strstr / std::string::find: the first position (from 0) at which needle
\* occurs in hay, or -1.
StrStr(hay, needle) ==
  LET at == {i \in 0 .. (Len(hay) - Len(needle)) :
               SubSeq(hay, i + 1, i + Len(needle)) = needle}
  IN IF at = {} THEN -1 ELSE CHOOSE i \in at : \A j \in at : i <= j

\* What test_greet looks for, for the name it passes: "Hello, Test!".
Needle(s) == <<"H", "e", "l", "l", "o", ",", " ">> \o s \o <<"!">>

\* test_greet (C), line 12
CTestCheck(c) ==
  /\ pc[c] = "returned" /\ lang[c] = "c"
  /\ success' = [success EXCEPT ![c] =
                   ret[c].ptr # NULL
                   /\ StrStr(ReadStr(ret[c].ptr), Needle(InputOf("c", name[c]))) # -1]
  /\ pc' = [pc EXCEPT ![c] = "t15"]
  /\ UNCHANGED <<lang, name, total_length, message, msg, heap, stdout, ret,
                 oob, badfree>>

\* test_greet (C), lines 15-17
CTestFree(c) ==
  /\ pc[c] = "t15"
  /\ Free(ret[c].ptr)
  /\ pc' = [pc EXCEPT ![c] = "done"]
  /\ UNCHANGED <<lang, name, total_length, message, msg, stdout, ret, success,
                 oob>>

\* ------------------------------------------------ microsandbox::greet (C++)
\* Faulty variant: the second operator+ left out
ConcatNoSuffix(a, s, b) == CStr(a) \o s

\* line 5: operator+ on a literal, the std::string and a literal.
Concat(a, s, b) == CStr(a) \o s \o CStr(b)

\* line 5: the message is built, or its allocation throws std::bad_alloc,
\* which leaves greet (and test_greet, which catches nothing).
PConstruct(c) ==
  /\ pc[c] = "p5"
  /\ LET m == Concat(prefix, InputOf("cpp", name[c]), suffix)
     IN \/ /\ Fits(Len(m) + 1)
           /\ msg' = [msg EXCEPT ![c] = m]
           /\ pc' = [pc EXCEPT ![c] = "p6"]
           /\ ret' = ret
        \/ /\ msg' = msg
           /\ pc' = [pc EXCEPT ![c] = "done"]
           /\ ret' = [ret EXCEPT ![c] = [kind |-> "threw", ptr |-> NULL, str |-> <<>>]]
  /\ UNCHANGED <<lang, name, total_length, message, heap, stdout, success, oob,
                 badfree>>

\* line 6, std::cout << message
PInsert(c) ==
  /\ pc[c] = "p6"
  /\ stdout' = Append(stdout, [who |-> c, text |-> msg[c]])
  /\ pc' = [pc EXCEPT ![c] = "p6e"]
  /\ UNCHANGED <<lang, name, total_length, message, msg, heap, ret, success,
                 oob, badfree>>

\* Faulty variant: std::flush in the place of std::endl
FlushOnly == <<>>

\* What std::endl puts into the stream (and flushes).
Endl == <<NL>>

\* line 6, << std::endl: a second insertion into the stream
PEndl(c) ==
  /\ pc[c] = "p6e"
  /\ stdout' = Append(stdout, [who |-> c, text |-> Endl])
  /\ pc' = [pc EXCEPT ![c] = "p7"]
  /\ UNCHANGED <<lang, name, total_length, message, msg, heap, ret, success,
                 oob, badfree>>

\* line 7
PReturn(c) ==
  /\ pc[c] = "p7"
  /\ ret' = [ret EXCEPT ![c] = [kind |-> "string", ptr |-> NULL, str |-> msg[c]]]
  /\ pc' = [pc EXCEPT ![c] = "returned"]
  /\ UNCHANGED <<lang, name, total_length, message, msg, heap, stdout,
                 success, oob, badfree>>

\* test_greet (C++), lines 10-12
PTestCheck(c) ==
  /\ pc[c] = "returned" /\ lang[c] = "cpp"
  /\ success' = [success EXCEPT ![c] =
                   StrStr(ret[c].str, Needle(InputOf("cpp", name[c]))) # -1]
  /\ pc' = [pc EXCEPT ![c] = "done"]
  /\ UNCHANGED <<lang, name, total_length, message, msg, heap, stdout, ret,
                 oob, badfree>>

\* ---------------------------------------------------------- specifications
Step(c) ==
  \/ CLength(c)
  \/ CMalloc(c)
  \/ CCheck(c)
  \/ CSprintf(c)
  \/ CPrintf(c)
  \/ CReturn(c)
  \/ CTestCheck(c)
  \/ CTestFree(c)
  \/ PConstruct(c)
  \/ PInsert(c)
  \/ PEndl(c)
  \/ PReturn(c)
  \/ PTestCheck(c)

\* Calls from concurrent threads.
Next == \E c \in Calls : Call(c, SpecNames) \/ Step(c)

Spec == Init /\ [][Next]_vars

\* A single call, over every name.
NextSeq == Call(1, SeqNames) \/ Step(1)

SpecSeq == Init /\ [][NextSeq]_vars

\* ------------------------------------------------- vocabulary of the claims
HelloText == <<"H", "e", "l", "l", "o", ",", " ">>
WelcomeText ==
  <<"!", " ", "W", "e", "l", "c", "o", "m", "e", " ", "t", "o", " ",
    "M", "i", "c", "r", "o", "s", "a", "n", "d", "b", "o", "x", "!">>
Greeting(s) == HelloText \o s \o WelcomeText
GreetingOfEmpty ==
  <<"H", "e", "l", "l", "o", ",", " ", "!", " ", "W", "e", "l", "c", "o", "m",
    "e", " ", "t", "o", " ", "M", "i", "c", "r", "o", "s", "a", "n", "d", "b",
    "o", "x", "!">>

\* The call's input string.
Input(c) == InputOf(lang[c], name[c])
\* The call is over, whatever its outcome.
Over(c) == ret[c].kind # "none"
\* The call's allocation failed: NULL returned (C), std::bad_alloc thrown (C++).
Failed(c) ==
  \/ ret[c].kind = "threw"
  \/ ret[c].kind = "ptr" /\ ret[c].ptr = NULL
\* The call returned to its caller (a string or NULL).
Returned(c) == ret[c].kind \in {"ptr", "string"}
\* The call returned a string.
GotString(c) == Over(c) /\ ~Failed(c)

RECURSIVE TextBy(_, _)
\* What call c has written to the stream out, in order.
TextBy(c, out) ==
  IF out = <<>> THEN <<>>
  ELSE (IF Head(out).who = c THEN Head(out).text ELSE <<>>) \o TextBy(c, Tail(out))

\* Number of newlines in a text.
Newlines(t) == Cardinality({i \in 1 .. Len(t) : t[i] = NL})

\* C1: a greet call whose allocation does not fail returns exactly
\* "Hello, " + name + "! Welcome to Microsandbox!", and for the empty name
\* exactly "Hello, ! Welcome to Microsandbox!".
C1_ExactGreeting ==
  \A c \in Calls :
    /\ GotString(c) =>
         /\ ret[c].str = Greeting(Input(c))
         /\ Input(c) = <<>> => ret[c].str = GreetingOfEmpty
    /\ (Over(c) /\ lang[c] = "c" /\ message[c] # NULL) => GotString(c)

C1_Witness ==
  \E c \in Calls :
    /\ lang[c] = "c" /\ pc[c] = "returned" /\ name[c] = Lit(<<>>)
    /\ ret[c].ptr # NULL /\ ret[c].str = GreetingOfEmpty

\* C2: the returned string contains "Hello, " + name + "!", and its first
\* occurrence is at position 0, so that test_greet succeeds.
C2_HelloPrefix ==
  \A c \in Calls :
    /\ GotString(c) =>
         /\ StrStr(ret[c].str, HelloText \o Input(c) \o <<"!">>) = 0
         /\ Len(ret[c].str) >= Len(Input(c)) + 8
         /\ SubSeq(ret[c].str, 1, Len(Input(c)) + 8) = HelloText \o Input(c) \o <<"!">>
    /\ (GotString(c) /\ pc[c] \in {"t15", "done"}) => success[c]

C2_Witness ==
  \E c \in Calls :
    /\ lang[c] = "c" /\ pc[c] = "t15" /\ Input(c) = Test /\ success[c]
    /\ StrStr(ret[c].str, <<"H", "e", "l", "l", "o", ",", " ", "T", "e", "s", "t", "!">>) = 0

\* No call is inside greet.
Quiet == \A c \in Calls : pc[c] = "idle" \/ Over(c)
\* Everything written to the stream, in order.
RECURSIVE AllText(_)
AllText(out) == IF out = <<>> THEN <<>> ELSE Head(out).text \o AllText(Tail(out))

\* C3 as claimed: every call writes one line, whatever its outcome, so that
\* n calls leave n lines.
C3_OneLinePerCall ==
  /\ \A c \in Calls : Returned(c) => Newlines(TextBy(c, stdout)) = 1
  /\ Quiet =>
       Newlines(AllText(stdout)) = Cardinality({c \in Calls : Returned(c)})

\* C3 as amended: a call whose allocation succeeds writes exactly one line, a
\* call whose allocation fails writes nothing, so that n calls of which k
\* failed leave n - k lines.
C3_OneLinePerSuccessfulCall ==
  /\ \A c \in Calls :
       /\ Newlines(TextBy(c, stdout)) <= 1
       /\ GotString(c) => Newlines(TextBy(c, stdout)) = 1
       /\ Failed(c) => TextBy(c, stdout) = <<>>
  /\ Quiet =>
       Newlines(AllText(stdout)) = Cardinality({c \in Calls : GotString(c)})

C3_Witness ==
  /\ Quiet
  /\ \E c, d \in Calls : Failed(c) /\ lang[c] = "c" /\ GotString(d)
  /\ Newlines(AllText(stdout)) = 1

\* C4: when malloc fails, microsandbox_greet returns NULL, having written
\* nothing through the null pointer (nor anywhere outside an object), built no
\* message and printed nothing; it returns NULL in that case only.
C4_NullOnAllocationFailure ==
  \A c \in Calls :
    lang[c] = "c" =>
      /\ pc[c] \in {"c19", "c22", "c24"} => message[c] # NULL
      /\ \A w \in oob : w.who # c
      /\ (Over(c) /\ message[c] = NULL) =>
           /\ ret[c] = [kind |-> "ptr", ptr |-> NULL, str |-> <<>>]
           /\ TextBy(c, stdout) = <<>>
           /\ \A a \in Addrs : heap[a].owner # c
      /\ (Over(c) /\ ret[c].ptr = NULL) => message[c] = NULL

C4_Witness ==
  \E c \in Calls :
    /\ lang[c] = "c" /\ pc[c] = "returned" /\ message[c] = NULL
    /\ ret[c].kind = "ptr" /\ ret[c].ptr = NULL /\ oob = {}

\* C5: what a call has written when it returns is the string it returns
\* followed by one newline, that is "Hello, " + name +
\* "! Welcome to Microsandbox!" + "\n".
C5_EmitsReturnedLine ==
  \A c \in Calls :
    GotString(c) =>
      /\ TextBy(c, stdout) = ret[c].str \o <<NL>>
      /\ TextBy(c, stdout) = HelloText \o Input(c) \o WelcomeText \o <<"\n">>

C5_Witness ==
  \E c \in Calls :
    /\ lang[c] = "cpp" /\ pc[c] = "returned" /\ Input(c) = Test
    /\ TextBy(c, stdout) = ret[c].str \o <<NL>>

\* C6 as claimed: the stream is a sequence of whole lines; a text that does
\* not end its line is followed at once by the same call's newline (or is the
\* last thing written so far).
C6_AtomicLines ==
  \A i \in 1 .. Len(stdout) :
    \/ stdout[i].text # <<>> /\ stdout[i].text[Len(stdout[i].text)] = NL
    \/ i = Len(stdout)
    \/ stdout[i + 1] = [who |-> stdout[i].who, text |-> <<NL>>]

Holds(c) ==
  /\ lang[c] = "c" /\ message[c] # NULL
  /\ pc[c] \in {"c14", "c19", "c22", "c24", "returned", "t15"}

\* C8: a successful microsandbox_greet returns a block that is live, its own
\* and no other call's; greet frees nothing; the callers' frees are all of
\* live blocks, and once every caller has freed its result no block is left;
\* a failed call owns no block.
C8_CallerOwnsBuffer ==
  /\ \A c, d \in Calls : (Holds(c) /\ Holds(d) /\ c # d) => message[c] # message[d]
  /\ \A c \in Calls :
       Holds(c) => heap[message[c]] # NoBlock /\ heap[message[c]].owner = c
  /\ \A a \in Addrs :
       heap[a] # NoBlock => Holds(heap[a].owner) /\ message[heap[a].owner] = a
  /\ \A c \in Calls :
       (lang[c] = "c" /\ pc[c] \in {"returned", "t15"} /\ ret[c].ptr # NULL) =>
         ret[c].ptr = message[c]
  /\ badfree = 0
  /\ (\A c \in Calls : pc[c] \in {"idle", "done"}) =>
       \A a \in Addrs : heap[a] = NoBlock

C8_Witness ==
  \E c, d \in Calls :
    /\ c # d /\ pc[c] = "done" /\ lang[c] = "c" /\ GotString(c)
    /\ pc[d] = "returned" /\ lang[d] = "c" /\ GotString(d)
    /\ heap[ret[d].ptr].owner = d /\ ret[d].ptr = ret[c].ptr

\* Where a call is inside greet.
GreetPcs == {"c10", "c13", "c14", "c19", "c22", "c24", "p5", "p6", "p6e", "p7"}

\* One sequence extends the other by texts of call c only.
ExtendsBy(c, old, new) ==
  /\ Len(new) >= Len(old)
  /\ SubSeq(new, 1, Len(old)) = old
  /\ \A i \in (Len(old) + 1) .. Len(new) : new[i].who = c

\* C9: a step of greet changes nothing but its own locals, the stream (by
\* appending) and, in C, the one block it returns: the name strings, the
\* other calls, the other blocks and the memory outside every object stay as
\* they are.
C9_Frame ==
  [][\A c \in Calls :
       (pc[c] \in GreetPcs /\ pc'[c] # pc[c]) =>
         /\ name' = name /\ lang' = lang /\ success' = success
         /\ oob' = oob /\ oob = {} /\ badfree' = badfree
         /\ \A d \in Calls \ {c} :
              /\ pc'[d] = pc[d] /\ ret'[d] = ret[d] /\ msg'[d] = msg[d]
              /\ message'[d] = message[d] /\ total_length'[d] = total_length[d]
         /\ ExtendsBy(c, stdout, stdout')
         /\ \A a \in Addrs :
              heap'[a] # heap[a] =>
                /\ a = message'[c] /\ heap'[a].owner = c
                /\ heap[a] = NoBlock \/ heap[a].owner = c
         /\ Cardinality({a \in Addrs : heap'[a].owner = c}) <= 1]_vars

C9_Witness ==
  \E c, d \in Calls :
    /\ lang[c] = "c" /\ pc[c] = "returned" /\ GotString(c) /\ name[c] = Lit(Test)
    /\ lang[d] = "cpp" /\ pc[d] = "returned" /\ GotString(d)
    /\ Cardinality({a \in Addrs : heap[a] # NoBlock}) = 1 /\ oob = {}

\* C10: total_length is the true sum 7 + strlen(name) + 26 + 1 (no wrap in
\* size_t), the number of bytes sprintf writes; the block has that size, the
\* write stays inside it and ends with the NUL at index total_length - 1.
C10_ExactBufferSize ==
  \A c \in Calls :
    (lang[c] = "c" /\ pc[c] \notin {"idle", "c10"}) =>
      /\ total_length[c] = Len(HelloText) + StrLen(name[c]) + Len(WelcomeText) + 1
      /\ total_length[c] = Len(Format(prefix, name[c], suffix))
      /\ total_length[c] > Len(Greeting(Input(c)))
      /\ oob = {}
      /\ Holds(c) => heap[message[c]].size = total_length[c]
      /\ (Holds(c) /\ pc[c] \in {"c22", "c24", "returned", "t15"}) =>
           /\ heap[message[c]].bytes[total_length[c]] = NUL
           /\ StrLen(heap[message[c]].bytes) = total_length[c] - 1

C10_Witness ==
  \E c \in Calls :
    /\ lang[c] = "c" /\ pc[c] = "c24" /\ StrLen(name[c]) = AllocFit
    /\ total_length[c] = Len(GreetingOfEmpty) + AllocFit + 1
    /\ heap[message[c]].bytes[total_length[c]] = NUL

=============================================================================
